---- MODULE Spec2Model ----
(***************************************************************************)
(* KFeatureRoutingFunction::Compute                                        *)
(* (tensorflow/contrib/tensor_forest/hybrid/core/ops/                      *)
(*  k_feature_routing_function_op.cc).                                     *)
(*                                                                         *)
(* The kernel fills a num_data x max_nodes matrix with the probability     *)
(* that each input row reaches each node of a complete binary tree stored  *)
(* as a flat array.  The model follows Compute statement by statement:     *)
(* the rank check, the allocation, the row loop and the node loop.         *)
(*                                                                         *)
(* Numbers.  A float value v is held as the integer v * One, One a power   *)
(* of four.  Every value the model feeds in is a multiple of 1/4, so every *)
(* product and difference the kernel forms on them is a binary fraction of *)
(* at most 2*Levels bits: binary32 computes them without rounding, and the *)
(* integer arithmetic below is the kernel's arithmetic on these inputs.    *)
(*                                                                         *)
(* out_probs is a row-major Eigen tensor: out_probs(r, c) addresses the    *)
(* flat cell r * max_nodes + c and is not range checked.  A column index   *)
(* c >= max_nodes therefore lands on column 0 of the next row, or, past    *)
(* the last cell, outside the buffer; the latter is undefined behaviour    *)
(* and is modelled as a choice between the store going unnoticed and the   *)
(* process dying.                                                          *)
(***************************************************************************)
EXTENDS Integers, Sequences, FiniteSets, TLC

VARIABLES
    layer_num, max_nodes, num_features_per_node, random_seed,  \* attributes
    shape, input_data, tree_parameters, tree_biases,           \* inputs
    pc, status, allocated, out_shape, out,                     \* context
    num_data, num_features, i, j, feature_set,                 \* locals
    selMemo, splitMemo,                                        \* primitives
    wlog, trace, stray                                         \* history

vars == <<layer_num, max_nodes, num_features_per_node, random_seed,
          shape, input_data, tree_parameters, tree_biases,
          pc, status, allocated, out_shape, out,
          num_data, num_features, i, j, feature_set,
          selMemo, splitMemo, wlog, trace, stray>>

attrs == <<layer_num, max_nodes, num_features_per_node, random_seed>>
inputs == <<shape, input_data, tree_parameters, tree_biases>>

-----------------------------------------------------------------------------
(* Bounds of the model. *)

MaxNodes == 7
MaxData == 2

-----------------------------------------------------------------------------
(* Fixed-point scale. *)

RECURSIVE DepthOf(_)
DepthOf(k) == IF k <= 0 THEN 0 ELSE 1 + DepthOf((k - 1) \div 2)

\* Depth of the deepest column any max_nodes <= MaxNodes can write.
Levels == DepthOf(2 * (MaxNodes \div 2))

One == 4 ^ Levels

Quarter(n) == n * (One \div 4)

\* float multiplication, exact on the values of the model.
Mul(a, b) == (a * b) \div One

-----------------------------------------------------------------------------
(* Input domains. *)

LayerNums == {7}
RandomSeeds == {11}
FeaturesPerNode == {1}
FeatureCounts == {2}

Nodes == 0 .. MaxNodes

\* Shapes of input_data: rank 1, 2 and 3.
Shapes ==
    {<<n>> : n \in 0 .. MaxData}
    \cup {<<n, f>> : n \in 0 .. MaxData, f \in FeatureCounts}
    \cup {<<n, f, 1>> : n \in 0 .. MaxData, f \in FeatureCounts}

\* Feature vectors of a row: the 0/1 vectors whose features differ, so that
\* which feature a subset selects matters.
Points(f) == {p \in [1 .. f -> {0, 1}] : \E k \in 1 .. f : p[k] # p[1]}

\* One table whose parameters alternate from node to node, one with the same
\* parameters everywhere.
ParamTables == {[n \in Nodes |-> <<1 + (n % 2)>>], [n \in Nodes |-> <<1>>]}
BiasTables == {[n \in Nodes |-> 0]}

\* Values the split primitive may return: 1/4, 1 and 5/4.
LeftProbs == {Quarter(1), Quarter(4), Quarter(5)}

\* Contents of freshly allocated, uninitialised output memory.
Junk == {-1, 2 * One + 1}

-----------------------------------------------------------------------------
(* Tensor helpers. *)

dims(s) == Len(s)
dim_size(s, d) == s[d + 1]

CheckTensorBounds(s) == \A d \in 1 .. Len(s) : s[d] < 2147483647

\* What dim_size(1) returns where the index is not checked: the dimension,
\* or, for a rank-1 shape, whatever the shape's storage holds there.
LeftoverDims == {0, 2, 48879}
NumFeaturesRead(s) == IF dims(s) >= 2 THEN {dim_size(s, 1)} ELSE LeftoverDims

\* Errors allocate_output may return.
AllocateFailures == {"ResourceExhausted"}

NumElements == num_data * max_nodes
FlatIndex(r, c) == r * max_nodes + c
InBuffer(idx) == 0 <= idx /\ idx < NumElements

\* out_probs(r, c) read.
ReadCell(o, r, c) == IF InBuffer(FlatIndex(r, c)) THEN o[FlatIndex(r, c)] ELSE 0

\* out_probs(r, c) = v.
Store(o, r, c, v) ==
    IF InBuffer(FlatIndex(r, c)) THEN [o EXCEPT ![FlatIndex(r, c)] = v] ELSE o

Strays(r, cols) == {FlatIndex(r, c) : c \in {x \in cols : ~InBuffer(FlatIndex(r, x))}}

-----------------------------------------------------------------------------
(* The two external primitives: pure functions of their arguments, with    *)
(* the value for each argument tuple fixed the first time it is asked for. *)

Lookup(memo, key) == {p[2] : p \in {q \in memo : q[1] = key}}

Subsets(nf, k) == [1 .. k -> 0 .. nf - 1]

GetFeatureSet(memo, args) ==
    IF Lookup(memo, args) # {} THEN Lookup(memo, args)
    ELSE Subsets(args[4], args[5])

LeftProbabilityK(memo, key) ==
    IF Lookup(memo, key) # {} THEN Lookup(memo, key) ELSE LeftProbs

-----------------------------------------------------------------------------
(* The pieces of Compute. *)

\* Variants of the definitions below, each with one slip, used to show that
\* the properties at the end depend on the definition they vary.
RankOkAtLeast(s) == dims(s) >= 2
NodeLoopBoundRoundedUp(mn) == (mn + 1) \div 2
SelectorArgsByNode(row, node) ==
    <<layer_num, node, random_seed, num_features, num_features_per_node>>
LeftChildOffByOne(node) == 2 * node
LeftValueSwapped(prob, left_prob) == Mul(prob, One - left_prob)
RightValueDuplicated(prob, left_prob) == Mul(prob, left_prob)
RightValueNegated(prob, left_prob) == Mul(prob, left_prob - One)

NeedsRankCheck(s) == dim_size(s, 0) > 0
RankOk(s) == dims(s) = 2

RootColumn == 0
RootValue == One

NodeLoopBound(mn) == mn \div 2

ClearedFeatureSet(fs) == <<>>

SelectorArgs(row, node) ==
    <<layer_num, row, random_seed, num_features, num_features_per_node>>

LeftChild(node) == 2 * node + 1
RightChildSame(node) == LeftChild(node)
RightChild(node) == LeftChild(node) + 1

ParentProb(o, row, node) == ReadCell(o, row, node)

ParamIndex(node) == node

LeftValue(prob, left_prob) == Mul(prob, left_prob)
RightValue(prob, left_prob) == Mul(prob, One - left_prob)

-----------------------------------------------------------------------------

Init ==
    /\ layer_num \in LayerNums
    /\ max_nodes \in 0 .. MaxNodes
    /\ num_features_per_node \in FeaturesPerNode
    /\ random_seed \in RandomSeeds
    /\ shape \in Shapes
    /\ input_data \in
         IF Len(shape) = 2 THEN [0 .. shape[1] - 1 -> Points(shape[2])]
         ELSE {<<>>}
    /\ tree_parameters \in ParamTables
    /\ tree_biases \in BiasTables
    /\ pc = "entry"
    /\ status = "OK"
    /\ allocated = FALSE
    /\ out_shape = <<>>
    /\ out = <<>>
    /\ num_data = 0
    /\ num_features = 0
    /\ i = 0
    /\ j = 0
    /\ feature_set = <<>>
    /\ selMemo = {}
    /\ splitMemo = {}
    /\ wlog = <<>>
    /\ trace = <<>>
    /\ stray = {}

\* Lines 107-111: OP_REQUIRES fails and Compute returns.
RankError ==
    /\ pc = "entry"
    /\ NeedsRankCheck(shape)
    /\ ~RankOk(shape)
    /\ status' = "InvalidArgument"
    /\ pc' = "done"
    /\ UNCHANGED <<attrs, inputs, allocated, out_shape, out, num_data,
                   num_features, i, j, feature_set, selMemo, splitMemo,
                   wlog, trace, stray>>

\* The rank check of lines 107-111 lets Compute go on.
PastRankCheck == ~(NeedsRankCheck(shape) /\ ~RankOk(shape))

\* Lines 117-118: dim_size(1) of a rank-1 shape, which only an empty batch
\* brings this far, is out of range; a build that checks the index dies.
DimSizeAbort ==
    /\ pc = "entry"
    /\ PastRankCheck
    /\ CheckTensorBounds(shape)
    /\ dims(shape) < 2
    /\ num_data' = dim_size(shape, 0)
    /\ status' = "Aborted"
    /\ pc' = "crashed"
    /\ UNCHANGED <<attrs, inputs, allocated, out_shape, out,
                   num_features, i, j, feature_set, selMemo, splitMemo,
                   wlog, trace, stray>>

\* Lines 113-126: locals set, allocate_output returns an error and
\* OP_REQUIRES_OK ends Compute with it; no output exists.
AllocateFails ==
    /\ pc = "entry"
    /\ PastRankCheck
    /\ CheckTensorBounds(shape)
    /\ num_data' = dim_size(shape, 0)
    /\ num_features' \in NumFeaturesRead(shape)
    /\ status' \in AllocateFailures
    /\ pc' = "done"
    /\ UNCHANGED <<attrs, inputs, allocated, out_shape, out,
                   i, j, feature_set, selMemo, splitMemo, wlog, trace, stray>>

\* Lines 113-133: bounds check (on failure the error is reported and
\* Compute returns), locals, allocate_output, loop entry.
Allocate ==
    /\ pc = "entry"
    /\ PastRankCheck
    /\ IF ~CheckTensorBounds(shape)
       THEN /\ status' = "InvalidArgument"
            /\ pc' = "done"
            /\ UNCHANGED <<allocated, out_shape, out, num_data, num_features, i>>
       ELSE /\ num_data' = dim_size(shape, 0)
            /\ num_features' \in NumFeaturesRead(shape)
            /\ allocated' = TRUE
            /\ out_shape' = <<dim_size(shape, 0), max_nodes>>
            /\ \E g \in (IF dim_size(shape, 0) * max_nodes > 0 THEN Junk ELSE {-1}) :
                 out' = [c \in 0 .. dim_size(shape, 0) * max_nodes - 1 |-> g]
            /\ i' = 0
            /\ pc' = "row"
            /\ UNCHANGED status
    /\ UNCHANGED <<attrs, inputs, j, feature_set, selMemo, splitMemo,
                   wlog, trace, stray>>

\* Lines 133-138: next row, out_probs(i, 0) = 1.0f, node loop entry.
RowInit ==
    /\ pc = "row"
    /\ i < num_data
    /\ out' = Store(out, i, RootColumn, RootValue)
    /\ wlog' = Append(wlog, <<i, RootColumn>>)
    /\ stray' = stray \cup Strays(i, {RootColumn})
    /\ j' = 0
    /\ \E abort \in (IF Strays(i, {RootColumn}) # {} THEN BOOLEAN ELSE {FALSE}) :
         /\ pc' = IF abort THEN "crashed" ELSE "node"
         /\ status' = IF abort THEN "Aborted" ELSE status
    /\ UNCHANGED <<attrs, inputs, allocated, out_shape, num_data,
                   num_features, i, feature_set, selMemo, splitMemo, trace>>

\* Lines 138-153: one iteration of the node loop.
NodeStep ==
    /\ pc = "node"
    /\ j < NodeLoopBound(max_nodes)
    /\ LET cleared == ClearedFeatureSet(feature_set)
           args == SelectorArgs(i, j)
           left_child == LeftChild(j)
           right_child == RightChild(j)
           prob == ParentProb(out, i, j)
       IN  \E fresh \in GetFeatureSet(selMemo, args) :
             LET fs == cleared \o fresh
                 key == <<input_data[i], fs, tree_parameters[ParamIndex(j)],
                          tree_biases[ParamIndex(j)], num_features,
                          num_features_per_node>>
             IN  \E left_prob \in LeftProbabilityK(splitMemo, key) :
                   /\ feature_set' = fs
                   /\ selMemo' = selMemo \cup {<<args, fresh>>}
                   /\ splitMemo' = splitMemo \cup {<<key, left_prob>>}
                   /\ out' = Store(Store(out, i, left_child, LeftValue(prob, left_prob)),
                                   i, right_child, RightValue(prob, left_prob))
                   /\ wlog' = wlog \o <<<<i, left_child>>, <<i, right_child>>>>
                   /\ trace' = Append(trace,
                        [row |-> i, node |-> j, at |-> Len(wlog),
                         args |-> args, fresh |-> fresh,
                         subset |-> fs, pindex |-> ParamIndex(j), prob |-> prob,
                         left_prob |-> left_prob])
                   /\ stray' = stray \cup Strays(i, {left_child, right_child})
                   /\ \E abort \in (IF Strays(i, {left_child, right_child}) # {}
                                    THEN BOOLEAN ELSE {FALSE}) :
                        /\ pc' = IF abort THEN "crashed" ELSE "node"
                        /\ status' = IF abort THEN "Aborted" ELSE status
    /\ j' = j + 1
    /\ UNCHANGED <<attrs, inputs, allocated, out_shape, num_data,
                   num_features, i>>

\* Line 138 exit, line 133 increment.
NextRow ==
    /\ pc = "node"
    /\ ~(j < NodeLoopBound(max_nodes))
    /\ i' = i + 1
    /\ pc' = "row"
    /\ UNCHANGED <<attrs, inputs, status, allocated, out_shape, out, num_data,
                   num_features, j, feature_set, selMemo, splitMemo,
                   wlog, trace, stray>>

\* Line 133 exit, line 155.
Return ==
    /\ pc = "row"
    /\ ~(i < num_data)
    /\ pc' = "done"
    /\ UNCHANGED <<attrs, inputs, status, allocated, out_shape, out, num_data,
                   num_features, i, j, feature_set, selMemo, splitMemo,
                   wlog, trace, stray>>

Next ==
    \/ RankError
    \/ DimSizeAbort
    \/ AllocateFails
    \/ Allocate
    \/ RowInit
    \/ NodeStep
    \/ NextRow
    \/ Return

Spec == Init /\ [][Next]_vars

-----------------------------------------------------------------------------
(* Vocabulary of the properties. *)

Rows == 0 .. num_data - 1
Cell(r, c) == out[r * max_nodes + c]
Entries == {trace[x] : x \in 1 .. Len(trace)}
Returned == pc = "done" /\ status = "OK"

\* Row r has had its root written.
RowStarted(r) == r < i \/ (r = i /\ pc \in {"node", "crashed"})

\* The iteration of node n in row r has completed.
NodeDone(r, n) ==
    /\ n < max_nodes \div 2
    /\ r < i \/ (r = i /\ pc = "node" /\ n < j)

\* Columns of row r stored so far, and how often column c was.
Written(r) == {wlog[w][2] : w \in {x \in 1 .. Len(wlog) : wlog[x][1] = r}}
Times(r, c) == Cardinality({w \in 1 .. Len(wlog) : wlog[w] = <<r, c>>})

LeftProbAt(r, a) == (CHOOSE e \in Entries : e.row = r /\ e.node = a).left_prob

\* Product of the split probabilities on the path from the root to node k.
RECURSIVE PathProduct(_, _)
PathProduct(r, k) ==
    IF k = 0 THEN One
    ELSE LET a == (k - 1) \div 2
             lp == LeftProbAt(r, a)
         IN  IF k = 2 * a + 1
             THEN (PathProduct(r, a) * lp) \div One
             ELSE (PathProduct(r, a) * (One - lp)) \div One

-----------------------------------------------------------------------------

\* C1: mass conservation.  For every row and every internal node whose
\* iteration has completed and whose two children lie inside [0, max_nodes),
\* the children's probabilities add up to the node's, whatever left_prob the
\* split primitive returned; this holds in every later state, so no later
\* iteration breaks it.
C1_MassConservation ==
    \A r \in Rows : \A n \in Nodes :
        (NodeDone(r, n) /\ 2 * n + 2 < max_nodes)
            => Cell(r, 2 * n + 1) + Cell(r, 2 * n + 2) = Cell(r, n)

C1_Witness ==
    /\ Returned
    /\ num_data = 2
    /\ max_nodes = 7
    /\ \E e \in Entries : e.left_prob = Quarter(5)
    /\ \E e \in Entries : e.left_prob = Quarter(1) /\ e.node = 1

\* C2: root certainty.  Once a row has been started its column 0 holds 1.0,
\* during the rest of the run and when Compute returns: no iteration of the
\* node loop stores to it.
C2_RootCertainty ==
    \A r \in Rows :
        (max_nodes >= 1 /\ RowStarted(r)) => (Cell(r, 0) = One /\ Times(r, 0) = 1)

C2_Witness ==
    /\ Returned
    /\ num_data = 2
    /\ max_nodes = 7
    /\ Len(trace) = 6

\* C3: when Compute returns, every entry out[r, k] is the product over the
\* ancestors a of k of left_prob(r, a) where the path turns left and of
\* 1 - left_prob(r, a) where it turns right; the root's entry is 1.
C3_PathProduct ==
    Returned => \A r \in Rows : \A k \in 0 .. max_nodes - 1 :
                    Cell(r, k) = PathProduct(r, k)

\* A three-level tree with left_prob 1/4 at nodes 0 and 2: node 5 is reached
\* with probability 3/4 * 1/4.
C3_Witness ==
    /\ Returned
    /\ max_nodes = 7
    /\ \E r \in Rows :
         /\ Cell(r, 1) = Quarter(1)
         /\ Cell(r, 2) = Quarter(3)
         /\ Cell(r, 5) = 3 * (One \div 16)

\* C4: range.  If every left_prob the split primitive returned lies in
\* [0, 1], every entry of the returned output lies in [0, 1].
C4_Range ==
    (Returned /\ \A e \in Entries : 0 <= e.left_prob /\ e.left_prob <= One)
        => \A c \in DOMAIN out : 0 <= out[c] /\ out[c] <= One

C4_Witness ==
    /\ Returned
    /\ num_data = 2
    /\ max_nodes = 7
    /\ \A e \in Entries : 0 <= e.left_prob /\ e.left_prob <= One
    /\ \E e \in Entries : e.left_prob = One
    /\ \E e \in Entries : e.left_prob = Quarter(1)
    /\ \E c \in DOMAIN out : out[c] = 0

\* C5: row independence.  Two rows with the same features get the same
\* output row under the same parameters and biases, wherever they stand in
\* the batch.
C5_RowIndependence ==
    Returned => \A r1 \in Rows : \A r2 \in Rows :
                    input_data[r1] = input_data[r2]
                        => \A c \in 0 .. max_nodes - 1 : Cell(r1, c) = Cell(r2, c)

\* C6: rank precondition.  With dim 0 positive and a rank other than 2,
\* Compute ends with InvalidArgument, and at no point is the output
\* allocated, a cell stored or a primitive called.
C6_RankPrecondition ==
    (dim_size(shape, 0) > 0 /\ Len(shape) # 2) =>
        /\ pc \in {"entry", "done"}
        /\ pc = "done" => status = "InvalidArgument"
        /\ ~allocated
        /\ out_shape = <<>>
        /\ wlog = <<>> /\ stray = {}
        /\ trace = <<>> /\ selMemo = {} /\ splitMemo = {}

C6_Witness ==
    /\ pc = "done"
    /\ status = "InvalidArgument"
    /\ Len(shape) = 3
    /\ dim_size(shape, 0) = MaxData

\* C7: empty batch.  With dim 0 equal to 0, whatever the rank, Compute
\* finishes without error (an error returned by allocate_output set aside),
\* allocates a 0 x max_nodes output, stores to no cell and calls no
\* primitive.
C7_EmptyBatch ==
    (dim_size(shape, 0) = 0 /\ status \notin AllocateFailures) =>
        /\ status = "OK"
        /\ pc \in {"entry", "row", "done"}
        /\ pc # "entry" => (allocated /\ out_shape = <<0, max_nodes>> /\ out = <<>>)
        /\ wlog = <<>> /\ stray = {}
        /\ trace = <<>> /\ selMemo = {} /\ splitMemo = {}

\* C8: parent before child.  Within a row the nodes are processed in the
\* order 0, 1, 2, ...; when node n is processed its cell has been stored in
\* this row already, no later store touches it, and so the probability read
\* for it is the cell's final value.
C8_ParentBeforeChild ==
    \A x \in 1 .. Len(trace) :
        LET e == trace[x]
        IN  /\ e.node = Cardinality({y \in 1 .. x - 1 : trace[y].row = e.row})
            /\ \A y \in 1 .. x - 1 : trace[y].row <= e.row
            /\ \E w \in 1 .. e.at : wlog[w] = <<e.row, e.node>>
            /\ \A w \in e.at + 1 .. Len(wlog) :
                 wlog[w][1] * max_nodes + wlog[w][2] # e.row * max_nodes + e.node
            /\ Cell(e.row, e.node) = e.prob

C8_Witness ==
    /\ Returned
    /\ num_data = 2
    /\ max_nodes = 7
    /\ \E e \in Entries : e.row = 1 /\ e.node = 2 /\ e.prob = Quarter(3)

\* C9: every selector call made for row r receives (layer_num, r,
\* random_seed, num_features, num_features_per_node), never the node index;
\* the subset handed to the split primitive is exactly the one that call
\* returned, and so is the same at every node of the row.
C9_SelectorSeededByRow ==
    /\ \A e \in Entries :
         /\ e.args = <<layer_num, e.row, random_seed, num_features,
                       num_features_per_node>>
         /\ e.subset = e.fresh
         /\ Len(e.subset) = num_features_per_node
    /\ \A e1 \in Entries : \A e2 \in Entries :
         e1.row = e2.row => e1.subset = e2.subset

C9_Witness ==
    /\ Returned
    /\ num_data = 2
    /\ max_nodes = 7
    /\ \E e1 \in Entries : \E e2 \in Entries :
         /\ e1.row = 0 /\ e1.node = 2
         /\ e2.row = 1 /\ e2.node = 0
         /\ e1.subset # e2.subset

\* C10: written index set.  When Compute returns on a batch with at least
\* one row, the columns stored for each row are exactly
\* 0 .. 2 * (max_nodes \div 2), each once; they all lie in [0, max_nodes),
\* and then cover it, exactly when max_nodes is odd, and for even max_nodes
\* column max_nodes is stored, for the last row outside the buffer.  The
\* parameters and biases are read at indices below max_nodes \div 2 only.
C10_WrittenIndexSet ==
    Returned =>
        /\ \A w \in 1 .. Len(wlog) : wlog[w][1] \in Rows
        /\ \A r \in Rows :
             /\ Written(r) = 0 .. 2 * (max_nodes \div 2)
             /\ \A c \in Written(r) : Times(r, c) = 1
             /\ (Written(r) = 0 .. max_nodes - 1) <=> (max_nodes % 2 = 1)
             /\ (\A c \in Written(r) : c < max_nodes) <=> (max_nodes % 2 = 1)
             /\ max_nodes % 2 = 0 => max_nodes \in Written(r)
        /\ (num_data >= 1 /\ max_nodes % 2 = 0) => num_data * max_nodes \in stray
        /\ max_nodes % 2 = 1 => stray = {}
        /\ \A e \in Entries : 0 <= e.pindex /\ e.pindex < max_nodes \div 2

C10_Witness ==
    /\ Returned
    /\ num_data = 2
    /\ max_nodes = 4
    /\ stray = {8}
    /\ Len(wlog) = 10

====
